---- MODULE Spec2Model ----
(***************************************************************************)
(* A model of llmParallelRunner:                                           *)
(*   src/parallel_runner/runner.py      safe_main_main, parallel_process_df *)
(*   src/llm_parallel_runner/runner.py  parallel_process_dfs                *)
(* The collaborator main.main and the store behind spark.sql are external: *)
(* every answer they can give is a nondeterministic choice.                *)
(* Python indexes chunks from 0; the model indexes them from 1, so chunk i *)
(* of the model is chunk i-1 of the code.                                  *)
(***************************************************************************)
EXTENDS Integers, Sequences, FiniteSets, TLC

\* ------------------------------------------------------------------ bounds
MaxRecords == 2      \* rows of the input DataFrame: 0..MaxRecords
MaxSplits == 2       \* n_splits: None or 1..MaxSplits
MaxWorkers == 2      \* max_workers: 1..MaxWorkers
MaxRounds == 3       \* max_main_retries: 0..MaxRounds
MaxDispatch == 4     \* chunks dispatched by one call: chunk count * max_main_retries
MaxLen == 5          \* length of the array given to array_split alone
MaxSections == 3     \* sections asked of array_split alone
MaxSets == 3         \* entries of dfs_dict
MaxFairDispatch == 2 \* chunks dispatched by one call under fair scheduling
MaxFairWorkers == 1  \* max_workers under fair scheduling: 1..MaxFairWorkers
MaxCountDispatch == 2 \* chunks dispatched by one call whose invocations are counted

\* --------------------------------------------------------------- constants
\* runner.py:24  max_retries = 3
max_retries == 3

\* runner.py:28  while attempt < max_retries
\* (variant: the test lets one attempt too many through)
MayAttemptOff(a) == a <= max_retries
MayAttempt(a) == a < max_retries

\* n_splits: Optional[int] = None is modelled as 0 (a chunk count is >= 1)
None == 0

\* -------------------------------------------------------------------- keys
\* A pmcid is an integer or a string of digits. One record shape holds both
\* so that values of the two types can be compared.
IntKey(n) == [ty |-> "int", n |-> n, s |-> <<>>]
StrKey(s) == [ty |-> "str", n |-> 0, s |-> s]

\* str(n) for n >= 0: the decimal digits, most significant first
RECURSIVE Digits(_)
Digits(n) == IF n < 10 THEN <<n>> ELSE Digits(n \div 10) \o <<n % 10>>

\* Series.astype(str) on one value
\* (variant: the value is left as it is)
AstypeStrOff(k) == k
AstypeStr(k) == IF k.ty = "int" THEN StrKey(Digits(k.n)) ELSE k

\* df['pmcid'].astype(str)
AstypeStrAll(col) == [i \in 1..Len(col) |-> AstypeStr(col[i])]

\* The columns a caller can pass: the first n of 1, 2, 3, ... as an int64
\* column, or the same keys as strings.
IntColumn(n) == [i \in 1..n |-> IntKey(i)]
StrColumn(n) == [i \in 1..n |-> StrKey(Digits(i))]
Columns == {IntColumn(n) : n \in 0..MaxRecords} \cup {StrColumn(n) : n \in 0..MaxRecords}

\* What SELECT DISTINCT(pmcid) can return: any set of keys, as the store's
\* column type has them.
StoreKeys == {IntKey(i) : i \in 1..MaxRecords} \cup {StrKey(Digits(i)) : i \in 1..MaxRecords}

\* ---------------------------------------------------------- error messages
\* str(error) as a sequence of words; lower() and the substring test of
\* runner.py:33-35 work on words instead of characters.
LowerWord(w) ==
    CASE w = "Concurrent" -> "concurrent"
      [] w = "WRITE" -> "write"
      [] w = "Transaction" -> "transaction"
      [] OTHER -> w

Lower(msg) == [i \in 1..Len(msg) |-> LowerWord(msg[i])]

Contains(sub, msg) ==
    \E i \in 0..(Len(msg) - Len(sub)) : SubSeq(msg, i + 1, i + Len(sub)) = sub

\* runner.py:33-35
\* (variant: every error is taken for a transient one)
IsTransientOff(error) == TRUE
IsTransient(error) ==
    LET error_message == Lower(error)
    IN  \/ Contains(<<"concurrent", "write">>, error_message)
        \/ Contains(<<"transaction", "conflict">>, error_message)

\* What main.main can raise: two errors that carry a transient marker, in
\* mixed case, and one that carries the words of a marker in another order
MarkerErrors ==
    { <<"Concurrent", "WRITE", "detected">>,
      <<"delta", "Transaction", "conflict">> }

OtherErrors == { <<"write", "timeout", "concurrent">> }

ErrorMessages == MarkerErrors \cup OtherErrors

\* runner.py:43
ExhaustedMessage ==
    <<"failed", "after", "multiple", "retries", "due", "to", "concurrent", "write", "errors">>

\* ------------------------------------------------------------------ tables
\* A DataFrame is the sequence of its rows; pd.DataFrame() is the empty one.
EmptyDataFrame == <<>>

\* A slot of the results list: None, or a DataFrame
NoneSlot == [set |-> FALSE, tbl |-> <<>>]
Slot(tbl) == [set |-> TRUE, tbl |-> tbl]

\* pd.concat(frames, ignore_index=True): the rows of the frames in list order;
\* a None entry is skipped
RECURSIVE Concat(_)
Concat(slots) ==
    IF slots = <<>> THEN <<>>
    ELSE (IF Head(slots).set THEN Head(slots).tbl ELSE <<>>) \o Concat(Tail(slots))

\* the same over a list that holds DataFrames only
\* (variant: a row whose key an earlier frame holds is dropped)
RECURSIVE ConcatFramesOff(_)
ConcatFramesOff(frames) ==
    IF frames = <<>> THEN <<>>
    ELSE LET front == ConcatFramesOff(SubSeq(frames, 1, Len(frames) - 1))
             last == frames[Len(frames)]
         IN  front \o SelectSeq(last, LAMBDA k : \A n \in DOMAIN front : front[n] # k)
RECURSIVE ConcatFrames(_)
ConcatFrames(frames) ==
    IF frames = <<>> THEN <<>> ELSE Head(frames) \o ConcatFrames(Tail(frames))

\* What main.main can return for a chunk: a row for every record, or no row
Returns(chunk) == {chunk, EmptyDataFrame}

\* ------------------------------------------------------------- array_split
\* np.array_split(ary, Nsections), runner.py:102: divmod(Ntotal, Nsections)
\* gives Neach_section and extras; the first `extras` sections hold
\* Neach_section + 1 rows, the others Neach_section; the sections are cut at
\* the running sums of the sizes.
SectionSize(Ntotal, Nsections, i) ==
    (Ntotal \div Nsections) + (IF i <= Ntotal % Nsections THEN 1 ELSE 0)

RECURSIVE DivPoint(_, _, _)
DivPoint(Ntotal, Nsections, i) ==
    IF i = 0 THEN 0
    ELSE DivPoint(Ntotal, Nsections, i - 1) + SectionSize(Ntotal, Nsections, i)

\* (variant: all the rows beyond Neach_section per section go to the last one)
ArraySplitOff(ary, Nsections) ==
    LET each == Len(ary) \div Nsections
    IN  [i \in 1..Nsections |->
            IF i < Nsections THEN SubSeq(ary, (i - 1) * each + 1, i * each)
            ELSE SubSeq(ary, (i - 1) * each + 1, Len(ary))]
ArraySplit(ary, Nsections) ==
    [i \in 1..Nsections |->
        SubSeq(ary, DivPoint(Len(ary), Nsections, i - 1) + 1,
                    DivPoint(Len(ary), Nsections, i))]

\* ------------------------------------------------------------------- state
VARIABLES
    \* parallel_process_df: parameters
    df,                 \* the caller's DataFrame: its pmcid column
    n_splits,           \* None or the chunk count
    max_workers,
    max_main_retries,
    kwargs,             \* the names of the keyword arguments supplied
    given,              \* observation only: df as the caller passed it
    audit,              \* observation only: whether the invocations of the
                        \* whole call are counted (invocations, passed)
    \* parallel_process_dfs: parameter
    dfs_dict,           \* the items of the dict, in insertion order
    \* locals of the entry point
    pc,                 \* where the call is
    attempt,            \* the for loop's index
    remaining_df,
    chunks,
    results,
    overall_results,
    processed_ids,
    final_df,           \* the value returned by parallel_process_df
    \* ThreadPoolExecutor
    queue,              \* the work queue: task indexes, in submission order
    worker,             \* worker thread -> the task it runs, 0 when idle
    fut,                \* task -> its future
    yielded,            \* the futures as_completed has handed out
    \* safe_main_main, one call per chunk
    tries,              \* task -> its `attempt` counter
    incall,             \* task -> main.main is executing
    \* observation only
    ncalls,             \* task -> invocations of main.main in this round
    lasterr,            \* task -> its latest invocation raised: "" (nothing),
                        \* "marker" (an error of MarkerErrors) or "other"
    rounds,             \* dispatch rounds started
    nqueries,           \* store queries made
    reported,           \* some store query returned at least one key
    invocations,        \* invocations of main.main since the call began
    passed              \* row of df -> invocations whose df= held the row

vars ==
    << df, given, n_splits, max_workers, max_main_retries, kwargs, dfs_dict, pc,
       attempt, remaining_df, chunks, results, overall_results, processed_ids,
       final_df, queue, worker, fut, yielded, tries, incall, ncalls, lasterr,
       rounds, nqueries, reported, audit, invocations, passed >>

paramVars == << max_workers, max_main_retries, kwargs, dfs_dict, given, audit >>
loopVars == << attempt, remaining_df, overall_results, processed_ids, final_df >>
poolVars == << queue, worker, fut, yielded, tries, incall, ncalls, lasterr >>
obsVars == << rounds, nqueries, reported, invocations, passed >>

\* ------------------------------------------------------------------ futures
NoFuture == [st |-> "none", ok |-> FALSE, val |-> <<>>, msg |-> <<>>]
Pending == [st |-> "pending", ok |-> FALSE, val |-> <<>>, msg |-> <<>>]
Running == [st |-> "running", ok |-> FALSE, val |-> <<>>, msg |-> <<>>]
Returned(tbl) == [st |-> "finished", ok |-> TRUE, val |-> tbl, msg |-> <<>>]
Raised(error) == [st |-> "finished", ok |-> FALSE, val |-> <<>>, msg |-> error]

\* The tasks of the running executor
Tasks == DOMAIN fut

\* runner.py:106, llm_parallel_runner/runner.py:29
\* ThreadPoolExecutor(max_workers=max_workers): the number of worker threads
\* (variant: one worker thread more than asked for)
PoolSizePlus == max_workers + 1
\* (variant: one worker thread per chunk)
PoolSizeOff == IF n_splits = None THEN max_workers ELSE n_splits
PoolSize == max_workers

\* A fresh ThreadPoolExecutor about to be given n tasks
FreshPool(n) ==
    /\ queue' = <<>>
    /\ worker' = [w \in 1..PoolSize |-> 0]
    /\ fut' = [i \in 1..n |-> NoFuture]
    /\ yielded' = {}
    /\ tries' = [i \in 1..n |-> 0]
    /\ incall' = [i \in 1..n |-> FALSE]
    /\ ncalls' = [i \in 1..n |-> 0]
    /\ lasterr' = [i \in 1..n |-> ""]

\* The task's function has returned or raised: the future is set and the
\* worker thread goes back to the queue
Finish(i, outcome) ==
    /\ fut' = [fut EXCEPT ![i] = outcome]
    /\ worker' = [w \in DOMAIN worker |-> IF worker[w] = i THEN 0 ELSE worker[w]]
    /\ incall' = [incall EXCEPT ![i] = FALSE]

\* ------------------------------------------------------ parallel_process_df
\* The keyword arguments parallel_process_df reads (runner.py:81-85); every
\* other one is passed on to main.main unread (runner.py:108)
RequiredNames == {"spark", "table_name"}

\* runner.py:81
\* (variant: nothing is required)
HasRequiredOff(kw) == TRUE
HasRequired(kw) == ~("spark" \notin kw \/ "table_name" \notin kw)

\* runner.py:91  for attempt in range(max_main_retries)
\* (variant: one round too many)
InRangeOff(a) == a <= max_main_retries
InRange(a) == a < max_main_retries

\* runner.py:98-99
SplitCount == IF n_splits = None THEN max_workers ELSE n_splits

\* runner.py:130  df[~df['pmcid'].isin(processed_ids)]
\* (variant: the rows are taken from the previous residual)
ResidualOfPrevious(d, ids) == SelectSeq(remaining_df, LAMBDA k : k \notin ids)
\* (variant: the negation is lost)
ResidualOff(d, ids) == SelectSeq(d, LAMBDA k : k \in ids)
Residual(d, ids) == SelectSeq(d, LAMBDA k : k \notin ids)

\* runner.py:92 and 136  if remaining_df.empty: break
\* (variant: the test never finds the frame empty)
StopsOff(rem) == FALSE
Stops(rem) == rem = <<>>

\* runner.py:112, llm_parallel_runner/runner.py:35  for future in
\* as_completed(...): the loop ends when every future has been handed out
\* (variant: the loop never ends)
ExhaustedNever(handed) == FALSE
\* (variant: the loop is not waited for)
ExhaustedEarly(handed) == TRUE
\* (variant: the loop ends with the first future handed out)
ExhaustedFirst(handed) == handed # {}
Exhausted(handed) == handed = Tasks

\* runner.py:113  index = future_to_index[future]
\* (variant: the slot is the position in completion order)
ResultIndexOff(i) == Cardinality(yielded) + 1
ResultIndex(i) == i

\* runner.py:115-118  the slot of a future that has finished
\* (variant: the slot of a failed chunk stays None)
SubstituteOff(f) == NoneSlot
Substitute(f) == Slot(EmptyDataFrame)
Outcome(f) == IF f.ok THEN Slot(f.val) ELSE Substitute(f)

InitWith(bags) ==
    /\ kwargs \in bags
    /\ df \in Columns
    /\ given = df
    /\ n_splits \in {None} \cup (1..MaxSplits)
    /\ max_workers \in 1..MaxWorkers
    /\ max_main_retries \in 0..MaxRounds
    /\ SplitCount * max_main_retries <= MaxDispatch
    /\ dfs_dict = <<>>
    /\ pc = "start"
    /\ attempt = 0
    /\ remaining_df = <<>>
    /\ chunks = <<>>
    /\ results = <<>>
    /\ overall_results = <<>>
    /\ processed_ids = {}
    /\ final_df = <<>>
    /\ queue = <<>>
    /\ worker = <<>>
    /\ fut = <<>>
    /\ yielded = {}
    /\ tries = <<>>
    /\ incall = <<>>
    /\ ncalls = <<>>
    /\ lasterr = <<>>
    /\ rounds = 0
    /\ nqueries = 0
    /\ reported = FALSE
    /\ invocations = 0
    /\ passed = [n \in DOMAIN df |-> 0]

Init == InitWith(SUBSET RequiredNames) /\ audit = FALSE

\* runner.py:78
Normalize ==
    /\ pc = "start"
    /\ df' = AstypeStrAll(df)
    /\ pc' = "validate"
    /\ UNCHANGED << n_splits, paramVars, loopVars, chunks, results, poolVars, obsVars >>

\* runner.py:81-89
Validate ==
    /\ pc = "validate"
    /\ IF HasRequired(kwargs)
       THEN /\ overall_results' = <<>>
            /\ remaining_df' = df
            /\ pc' = "loop"
       ELSE /\ pc' = "raised"
            /\ UNCHANGED << overall_results, remaining_df >>
    /\ UNCHANGED << df, n_splits, paramVars, attempt, processed_ids, final_df,
                    chunks, results, poolVars, obsVars >>

\* runner.py:91-106: the loop's test, the split, the results list, the pool
StartRound ==
    /\ pc = "loop"
    /\ IF InRange(attempt) /\ ~Stops(remaining_df)
       THEN /\ n_splits' = SplitCount
            /\ chunks' = ArraySplit(remaining_df, SplitCount)
            /\ results' = [i \in 1..SplitCount |-> NoneSlot]
            /\ FreshPool(SplitCount)
            /\ rounds' = rounds + 1
            /\ pc' = "submit"
       ELSE /\ pc' = "return"
            /\ UNCHANGED << n_splits, chunks, results, poolVars, rounds >>
    /\ UNCHANGED << df, paramVars, loopVars, nqueries, reported, invocations, passed >>

\* runner.py:107-110: executor.submit of the next chunk
Submit ==
    /\ pc = "submit"
    /\ LET i == Cardinality({j \in Tasks : fut[j].st # "none"}) + 1
       IN  /\ fut' = [fut EXCEPT ![i] = Pending]
           /\ queue' = Append(queue, i)
           /\ pc' = IF i = Len(chunks) THEN "collect" ELSE "submit"
    /\ UNCHANGED << df, n_splits, paramVars, loopVars, chunks, results, worker,
                    yielded, tries, incall, ncalls, lasterr, obsVars >>

\* The argument df= of task i
\* (variant: every task is given the whole residual)
ArgOff(i) == IF pc \in {"m_submit", "m_collect"} THEN dfs_dict[i].df ELSE remaining_df
Arg(i) == IF pc \in {"m_submit", "m_collect"} THEN dfs_dict[i].df ELSE chunks[i]

\* The function submitted with the tasks: safe_main_main (runner.py:108) or
\* main.main itself (llm_parallel_runner/runner.py:31)
Wrapped == pc \notin {"m_submit", "m_collect"}

\* Observation: one more invocation of main.main, made with the argument of
\* task i
Counted(i) ==
    /\ invocations' = IF audit THEN invocations + 1 ELSE invocations
    /\ passed' =
          IF audit
          THEN [n \in DOMAIN passed |->
                   IF \E m \in DOMAIN Arg(i) : Arg(i)[m] = df[n]
                   THEN passed[n] + 1 ELSE passed[n]]
          ELSE passed

\* ThreadPoolExecutor: an idle worker thread takes the oldest work item and
\* enters its function; safe_main_main starts with attempt = 0 (runner.py:24-26),
\* main.main is an invocation of the collaborator at once
TakeTask(w) ==
    /\ w \in DOMAIN worker
    /\ worker[w] = 0
    /\ queue # <<>>
    /\ LET i == Head(queue)
       IN  /\ worker' = [worker EXCEPT ![w] = i]
           /\ queue' = Tail(queue)
           /\ fut' = [fut EXCEPT ![i] = Running]
           /\ tries' = [tries EXCEPT ![i] = 0]
           /\ incall' = [incall EXCEPT ![i] = ~Wrapped]
           /\ ncalls' = [ncalls EXCEPT ![i] = IF Wrapped THEN 0 ELSE 1]
           /\ IF Wrapped THEN UNCHANGED << invocations, passed >> ELSE Counted(i)
    /\ UNCHANGED << df, n_splits, paramVars, pc, loopVars, chunks, results,
                    yielded, lasterr, rounds, nqueries, reported >>

\* runner.py:28-31 and 43: the while test, then the call of main.main or the
\* final raise
WrapperLoop(i) ==
    /\ i \in Tasks
    /\ Wrapped
    /\ fut[i].st = "running"
    /\ ~incall[i]
    /\ IF MayAttempt(tries[i])
       THEN /\ incall' = [incall EXCEPT ![i] = TRUE]
            /\ ncalls' = [ncalls EXCEPT ![i] = @ + 1]
            /\ lasterr' = [lasterr EXCEPT ![i] = ""]
            /\ Counted(i)
            /\ UNCHANGED << fut, worker >>
       ELSE /\ Finish(i, Raised(ExhaustedMessage))
            /\ UNCHANGED << ncalls, lasterr, invocations, passed >>
    /\ UNCHANGED << df, n_splits, paramVars, pc, loopVars, chunks, results,
                    queue, yielded, tries, rounds, nqueries, reported >>

\* main.main returns a result table
MainReturns(i) ==
    /\ i \in Tasks
    /\ incall[i]
    /\ \E tbl \in Returns(Arg(i)) : Finish(i, Returned(tbl))
    /\ UNCHANGED << df, n_splits, paramVars, pc, loopVars, chunks, results,
                    queue, yielded, tries, ncalls, lasterr, obsVars >>

\* main.main raises. Under safe_main_main (runner.py:32-41) a transient error
\* counts an attempt and sleeps, any other error is raised again; without the
\* wrapper the error is the future's.
MainRaises(i) ==
    /\ i \in Tasks
    /\ incall[i]
    /\ \E error \in ErrorMessages :
          /\ lasterr' = [lasterr EXCEPT ![i] = IF error \in MarkerErrors THEN "marker" ELSE "other"]
          /\ IF Wrapped /\ IsTransient(error)
             THEN /\ tries' = [tries EXCEPT ![i] = @ + 1]
                  /\ incall' = [incall EXCEPT ![i] = FALSE]
                  /\ UNCHANGED << fut, worker >>
             ELSE /\ Finish(i, Raised(error))
                  /\ UNCHANGED tries
    /\ UNCHANGED << df, n_splits, paramVars, pc, loopVars, chunks, results,
                    queue, yielded, ncalls, obsVars >>

\* runner.py:112-118: as_completed hands out a finished future
Collect(i) ==
    /\ pc = "collect"
    /\ i \in Tasks \ yielded
    /\ fut[i].st = "finished"
    /\ results' = [results EXCEPT ![ResultIndex(i)] = Outcome(fut[i])]
    /\ yielded' = yielded \cup {i}
    /\ UNCHANGED << df, n_splits, paramVars, pc, loopVars, chunks, queue, worker,
                    fut, tries, incall, ncalls, lasterr, obsVars >>

\* runner.py:119-141: every future was handed out and the pool has shut down;
\* the round's table, the store query, the residual, break or next attempt
Reconcile ==
    /\ pc = "collect"
    /\ Exhausted(yielded)
    /\ \E answer \in SUBSET StoreKeys :
          /\ overall_results' = Append(overall_results, Concat(results))
          /\ processed_ids' = {AstypeStr(k) : k \in answer}
          /\ remaining_df' = Residual(df, processed_ids')
          /\ nqueries' = nqueries + 1
          /\ reported' = (reported \/ answer # {})
          /\ IF Stops(remaining_df')
             THEN pc' = "return" /\ attempt' = attempt
             ELSE pc' = "loop" /\ attempt' = attempt + 1
    /\ UNCHANGED << df, n_splits, paramVars, final_df, chunks, results, poolVars,
                    rounds, invocations, passed >>

\* runner.py:143-148
Return ==
    /\ pc = "return"
    /\ final_df' = ConcatFrames(overall_results)
    /\ pc' = "done"
    /\ UNCHANGED << df, n_splits, paramVars, attempt, remaining_df,
                    overall_results, processed_ids, chunks, results, poolVars,
                    obsVars >>

Next ==
    \/ Normalize
    \/ Validate
    \/ StartRound
    \/ Submit
    \/ \E w \in DOMAIN worker : TakeTask(w)
    \/ \E i \in Tasks : WrapperLoop(i)
    \/ \E i \in Tasks : MainReturns(i)
    \/ \E i \in Tasks : MainRaises(i)
    \/ \E i \in Tasks : Collect(i)
    \/ Reconcile
    \/ Return

Spec == Init /\ [][Next]_vars

\* --------------------------------------------------------- fair scheduling
\* The main thread and every worker thread are scheduled by the interpreter
\* and the operating system: a thread that can take a step eventually takes
\* one. For a worker inside main.main the step is the call's return or raise,
\* so the fairness of the workers also says that every call of the
\* collaborator ends; for the main thread at runner.py:126 it says that the
\* store query ends.
MainThread ==
    \/ Normalize
    \/ Validate
    \/ StartRound
    \/ Submit
    \/ \E i \in Tasks : Collect(i)
    \/ Reconcile
    \/ Return

WorkerThread(w) ==
    \/ TakeTask(w)
    \/ \E i \in Tasks :
          /\ w \in DOMAIN worker
          /\ worker[w] = i
          /\ (WrapperLoop(i) \/ MainReturns(i) \/ MainRaises(i))

Fairness ==
    /\ WF_vars(MainThread)
    /\ \A w \in 1..MaxWorkers : WF_vars(WorkerThread(w))

\* The calls whose every fair behaviour is examined: string keys, any
\* keyword arguments, a smaller pool and fewer chunks per call
InitFair ==
    /\ InitWith(SUBSET RequiredNames)
    /\ \A n \in DOMAIN df : df[n].ty = "str"
    /\ max_workers <= MaxFairWorkers
    /\ SplitCount * max_main_retries <= MaxFairDispatch
    /\ audit = FALSE

SpecFair == InitFair /\ [][Next]_vars /\ Fairness

\* ------------------------------------------------- invocations counted
\* The calls whose invocations of main.main are counted from the beginning to
\* the return: string keys, both store parameters, fewer chunks per call
InitCount ==
    /\ InitWith({RequiredNames})
    /\ \A n \in DOMAIN df : df[n].ty = "str"
    /\ SplitCount * max_main_retries <= MaxCountDispatch
    /\ audit = TRUE

SpecCount == InitCount /\ [][Next]_vars

\* ------------------------------------------- a caller asking for serialization
\* parallel_process_df has no parameter that selects a writer policy; a caller
\* can only name one among the keyword arguments that are passed on.
InitSerialized == InitWith({RequiredNames \cup {"serialized"}}) /\ audit = FALSE

SpecSerialized == InitSerialized /\ [][Next]_vars

\* -------------------------------------------------------- array_split alone
\* The split of runner.py:98-103 for every frame of up to MaxLen rows and every
\* chunk count up to MaxSections, given as n_splits or left to max_workers.
InitSplit ==
    /\ df \in {StrColumn(n) : n \in 0..MaxLen}
    /\ given = df
    /\ audit = FALSE
    /\ n_splits \in {None} \cup (1..MaxSections)
    /\ max_workers \in 1..MaxSections
    /\ max_main_retries = 1
    /\ kwargs = {"spark", "table_name"}
    /\ dfs_dict = <<>>
    /\ pc = "validate"
    /\ attempt = 0
    /\ remaining_df = <<>>
    /\ chunks = <<>>
    /\ results = <<>>
    /\ overall_results = <<>>
    /\ processed_ids = {}
    /\ final_df = <<>>
    /\ queue = <<>>
    /\ worker = <<>>
    /\ fut = <<>>
    /\ yielded = {}
    /\ tries = <<>>
    /\ incall = <<>>
    /\ ncalls = <<>>
    /\ lasterr = <<>>
    /\ rounds = 0
    /\ nqueries = 0
    /\ reported = FALSE
    /\ invocations = 0
    /\ passed = [n \in DOMAIN df |-> 0]

NextSplit ==
    \/ Validate
    \/ StartRound

SpecSplit == InitSplit /\ [][NextSplit]_vars

\* ----------------------------------------------------- parallel_process_dfs
\* The dicts a caller can pass: up to MaxSets distinct keys in any insertion
\* order, key k naming a frame of k rows.
Item(k) == [key |-> k, df |-> StrColumn(k)]

ItemLists ==
    { items \in UNION {[1..n -> {Item(k) : k \in 1..MaxSets}] : n \in 0..MaxSets} :
        \A i, j \in DOMAIN items : i # j => items[i].key # items[j].key }

\* llm_parallel_runner/runner.py:38 and 41: the value stored under the key
\* (variant: an empty DataFrame instead of None)
ManyOutcomeOff(f) == IF f.ok THEN Slot(f.val) ELSE Slot(EmptyDataFrame)
ManyOutcome(f) == IF f.ok THEN Slot(f.val) ELSE NoneSlot

\* llm_parallel_runner/runner.py:36  key = future_to_key[future]
KeyOf(i) == dfs_dict[i].key

\* results[key] = value
DictSet(d, key, value) ==
    [k \in DOMAIN d \cup {key} |-> IF k = key THEN value ELSE d[k]]

InitMany ==
    /\ dfs_dict \in ItemLists
    /\ max_workers \in 1..MaxWorkers
    /\ kwargs = {}
    /\ df = <<>>
    /\ given = df
    /\ audit = FALSE
    /\ n_splits = None
    /\ max_main_retries = 0
    /\ pc = "m_start"
    /\ attempt = 0
    /\ remaining_df = <<>>
    /\ chunks = <<>>
    /\ results = <<>>
    /\ overall_results = <<>>
    /\ processed_ids = {}
    /\ final_df = <<>>
    /\ queue = <<>>
    /\ worker = <<>>
    /\ fut = <<>>
    /\ yielded = {}
    /\ tries = <<>>
    /\ incall = <<>>
    /\ ncalls = <<>>
    /\ lasterr = <<>>
    /\ rounds = 0
    /\ nqueries = 0
    /\ reported = FALSE
    /\ invocations = 0
    /\ passed = [n \in DOMAIN df |-> 0]

\* llm_parallel_runner/runner.py:27-29
ManyStart ==
    /\ pc = "m_start"
    /\ results' = <<>>
    /\ FreshPool(Len(dfs_dict))
    /\ pc' = IF dfs_dict = <<>> THEN "m_collect" ELSE "m_submit"
    /\ UNCHANGED << df, n_splits, paramVars, loopVars, chunks, obsVars >>

\* llm_parallel_runner/runner.py:30-33: executor.submit of the next item
ManySubmit ==
    /\ pc = "m_submit"
    /\ LET i == Cardinality({j \in Tasks : fut[j].st # "none"}) + 1
       IN  /\ fut' = [fut EXCEPT ![i] = Pending]
           /\ queue' = Append(queue, i)
           /\ pc' = IF i = Len(dfs_dict) THEN "m_collect" ELSE "m_submit"
    /\ UNCHANGED << df, n_splits, paramVars, loopVars, chunks, results, worker,
                    yielded, tries, incall, ncalls, lasterr, obsVars >>

\* llm_parallel_runner/runner.py:35-41
ManyCollect(i) ==
    /\ pc = "m_collect"
    /\ i \in Tasks \ yielded
    /\ fut[i].st = "finished"
    /\ results' = DictSet(results, KeyOf(i), ManyOutcome(fut[i]))
    /\ yielded' = yielded \cup {i}
    /\ UNCHANGED << df, n_splits, paramVars, pc, loopVars, chunks, queue, worker,
                    fut, tries, incall, ncalls, lasterr, obsVars >>

\* llm_parallel_runner/runner.py:43
ManyReturn ==
    /\ pc = "m_collect"
    /\ Exhausted(yielded)
    /\ pc' = "m_done"
    /\ UNCHANGED << df, n_splits, paramVars, loopVars, chunks, results, poolVars,
                    obsVars >>

NextMany ==
    \/ ManyStart
    \/ ManySubmit
    \/ \E w \in DOMAIN worker : TakeTask(w)
    \/ \E i \in Tasks : MainReturns(i)
    \/ \E i \in Tasks : MainRaises(i)
    \/ \E i \in Tasks : ManyCollect(i)
    \/ ManyReturn

SpecMany == InitMany /\ [][NextMany]_vars

\* ================================================================== claims

\* C1: safe_main_main invokes the collaborator at most 3 times for a chunk in a
\* round; after two transient errors a success is the result of the third
\* invocation; after three transient errors the chunk has had exactly three
\* invocations, none is running, and the call ends with the terminal error.
RetryBound ==
    \A i \in Tasks :
        /\ ncalls[i] <= 3
        /\ tries[i] <= 3
        /\ (fut[i].st = "finished" /\ fut[i].ok /\ tries[i] = 2) => ncalls[i] = 3
        /\ tries[i] = 3 =>
              /\ ncalls[i] = 3
              /\ ~incall[i]
              /\ fut[i] \in {Running, Raised(ExhaustedMessage)}
        /\ (fut[i].st = "finished" /\ fut[i].msg = ExhaustedMessage) => tries[i] = 3

\* One chunk succeeds on its third invocation while a sibling has used up its
\* three invocations
RetryBoundWitness ==
    \E i, j \in Tasks :
        /\ fut[i].st = "finished" /\ fut[i].ok /\ fut[i].val # <<>>
        /\ tries[i] = 2 /\ ncalls[i] = 3
        /\ fut[j] = Raised(ExhaustedMessage) /\ ncalls[j] = 3

\* C6: an error without a transient marker ends the chunk's call at once with
\* that error, however many transient errors came before: the invocation that
\* raised it is the last one.
NonTransientFastFail ==
    \A i \in Tasks :
        lasterr[i] = "other" =>
            /\ fut[i].st = "finished"
            /\ ~fut[i].ok
            /\ fut[i].msg \in OtherErrors
            /\ ~incall[i]
            /\ ncalls[i] = tries[i] + 1

\* One chunk fails on its first invocation, a sibling on its third after two
\* transient errors
NonTransientFastFailWitness ==
    \E i, j \in Tasks :
        /\ lasterr[i] = "other" /\ ncalls[i] = 1 /\ fut[i].st = "finished"
        /\ lasterr[j] = "other" /\ ncalls[j] = 3 /\ fut[j].st = "finished"

\* The fan-in of the current round has finished: as_completed is exhausted
FanInDone ==
    \/ pc = "collect" /\ yielded = Tasks
    \/ pc \in {"loop", "return", "done"} /\ rounds > 0

\* C2: within a round, the slot of every chunk whose call failed holds an empty
\* DataFrame once its future is handed out, the slot of every other chunk
\* holds what its call returned, a slot not handed out yet is untouched, and
\* the round goes on to its reconciliation whatever subset of chunks failed.
FailureIsolation ==
    /\ \A i \in Tasks :
          results[i] =
              IF i \notin yielded THEN NoneSlot
              ELSE IF fut[i].ok THEN [set |-> TRUE, tbl |-> fut[i].val]
              ELSE [set |-> TRUE, tbl |-> <<>>]
    /\ (pc = "collect" /\ yielded = Tasks) => ENABLED Reconcile
    /\ rounds > 0 => pc # "raised"

\* A round that completed with one chunk failed and a sibling's rows kept
FailureIsolationWitness ==
    /\ pc = "done"
    /\ \E i, j \in Tasks :
          /\ ~fut[i].ok /\ results[i] = [set |-> TRUE, tbl |-> <<>>]
          /\ fut[j].ok /\ results[j].tbl # <<>>

\* C3: when a round's fan-in finishes, results has one entry per submitted
\* chunk, none of them None, and entry i is the outcome of the call made with
\* chunk i: a table that call returned for chunk i, or the empty substitute.
FanInOrdering ==
    FanInDone =>
        /\ Len(results) = Len(chunks)
        /\ DOMAIN fut = DOMAIN chunks
        /\ \A i \in DOMAIN chunks :
              /\ results[i].set
              /\ fut[i].st = "finished"
              /\ fut[i].ok => (results[i].tbl = fut[i].val /\ fut[i].val \in Returns(chunks[i]))
              /\ ~fut[i].ok => results[i].tbl = <<>>

\* Two chunks of different rows, each slot holding its own chunk's rows
FanInOrderingWitness ==
    /\ FanInDone
    /\ Len(chunks) = 2
    /\ chunks[1] # chunks[2]
    /\ results[1].tbl = chunks[1] /\ chunks[1] # <<>>
    /\ results[2].tbl = chunks[2] /\ chunks[2] # <<>>

\* The store's answer names the key of every row of the input
Covered(ids) == \A n \in DOMAIN df : df[n] \in ids

\* C4: the reconciliation that finds the residual empty ends the loop at once,
\* and an answer naming every input key leaves the residual empty; from then
\* on no round starts, no collaborator is invoked and no store query is made.
\* So an answer after round 1 that names every input key means one round.
QueryStep ==
    nqueries' = nqueries + 1 =>
        /\ Covered(processed_ids') => remaining_df' = <<>>
        /\ remaining_df' = <<>> => pc' = "return"

StoppedStep ==
    pc \in {"return", "done"} =>
        /\ pc' \in {"return", "done"}
        /\ rounds' = rounds
        /\ nqueries' = nqueries
        /\ ncalls' = ncalls
        /\ incall' = incall

ConvergenceStops ==
    /\ [][QueryStep /\ StoppedStep]_vars
    /\ [](pc \in {"return", "done"} => \A i \in Tasks : ~incall[i] /\ fut[i].st = "finished")
    /\ []((nqueries = 1 /\ Covered(processed_ids)) => (rounds = 1 /\ pc \in {"return", "done"}))

\* The call has returned after one round although the budget allowed two: the
\* one query named both input keys
ConvergenceStopsWitness ==
    /\ pc = "done"
    /\ Len(df) = 2
    /\ max_main_retries = 2
    /\ rounds = 1 /\ nqueries = 1
    /\ Covered(processed_ids)
    /\ remaining_df = <<>>

\* C5: with a non-empty input and a store that has returned no key so far, the
\* call does not raise, never runs more than max_main_retries rounds, splits
\* the whole input in every round, and leaves the loop only after exactly
\* max_main_retries rounds and queries, returning the concatenation of the
\* tables of all of them.
BudgetExhaustion ==
    (Len(df) > 0 /\ ~reported /\ {"spark", "table_name"} \subseteq kwargs) =>
        /\ pc # "raised"
        /\ rounds <= max_main_retries
        /\ nqueries <= rounds
        /\ rounds >= 1 => ConcatFrames(chunks) = df
        /\ pc \in {"return", "done"} =>
              /\ rounds = max_main_retries
              /\ nqueries = max_main_retries
              /\ Len(overall_results) = max_main_retries
        /\ pc = "done" => final_df = ConcatFrames(overall_results)

\* Two rounds over two rows, no key ever reported, a chunk of the last round
\* failed, and the call returned the rows the rounds produced
BudgetExhaustionWitness ==
    /\ pc = "done"
    /\ Len(df) = 2
    /\ ~reported
    /\ max_main_retries = 2 /\ rounds = 2
    /\ \E i \in Tasks : ~fut[i].ok
    /\ final_df # <<>>

\* C7: the split of a round yields exactly K chunks, K being n_splits or, when
\* n_splits is None, max_workers; the chunks concatenated in index order are
\* the frame that was split, so they are contiguous and every row is in
\* exactly one of them; any two chunk sizes differ by at most one. A frame
\* without rows splits into K empty chunks.
SplitStep ==
    (pc = "loop" /\ pc' = "submit") =>
        LET K == IF n_splits = 0 THEN max_workers ELSE n_splits
        IN  /\ Len(chunks') = K
            /\ ConcatFrames(chunks') = remaining_df
            /\ \A i, j \in 1..K : Len(chunks'[i]) - Len(chunks'[j]) <= 1
            /\ \A i \in 1..K : Len(remaining_df) < K => Len(chunks'[i]) \in {0, 1}

PartitionProperty ==
    /\ [][SplitStep]_vars
    /\ [](\A K \in 1..MaxSections : ArraySplit(<<>>, K) = [i \in 1..K |-> <<>>])

\* Five rows in three chunks of 2, 2 and 1 rows
PartitionPropertyWitness ==
    /\ pc = "submit"
    /\ Len(remaining_df) = 5
    /\ Len(chunks) = 3
    /\ Len(chunks[1]) = 2 /\ Len(chunks[2]) = 2 /\ Len(chunks[3]) = 1

\* The call was made without the store handle or without the target identity
Unreconcilable == "spark" \notin kwargs \/ "table_name" \notin kwargs

\* C8 as stated: without the store handle or the target identity the call
\* still dispatches the chunks once and returns a table, so it never raises.
DispatchWithoutStore == Unreconcilable => pc # "raised"

\* C8, amended: the store handle and the target identity are required. Without
\* either the call raises before any dispatch: no round, no task, no store
\* query; nothing else makes the call raise; and with both, the call leaves
\* the loop only with every round reconciled.
StoreRequired ==
    /\ Unreconcilable =>
          /\ pc \in {"start", "validate", "raised"}
          /\ rounds = 0
          /\ nqueries = 0
          /\ Tasks = {}
          /\ final_df = <<>>
    /\ pc = "raised" => Unreconcilable
    /\ pc \in {"return", "done"} => nqueries = rounds

\* A call with two rows and the store handle but no target identity has raised
StoreRequiredWitness ==
    /\ pc = "raised"
    /\ kwargs = {"spark"}
    /\ Len(df) = 2

Min(a, b) == IF a < b THEN a ELSE b

ManyIndependent ==
    /\ \A i \in Tasks :
          /\ ncalls[i] <= 1
          /\ lasterr[i] # "" => (fut[i].st = "finished" /\ ~fut[i].ok)
    /\ DOMAIN results = {dfs_dict[i].key : i \in yielded}
    /\ \A i \in yielded :
          /\ fut[i].ok =>
                /\ results[dfs_dict[i].key] = [set |-> TRUE, tbl |-> fut[i].val]
                /\ fut[i].val \in Returns(dfs_dict[i].df)
          /\ ~fut[i].ok => results[dfs_dict[i].key] = [set |-> FALSE, tbl |-> <<>>]
    /\ pc = "m_done" =>
          /\ yielded = DOMAIN dfs_dict
          /\ \A i \in DOMAIN dfs_dict : ncalls[i] = 1
    /\ nqueries = 0

\* Three items inserted out of key order; one call raised a transient error
\* and its key holds None, another returned rows
ManyIndependentWitness ==
    /\ pc = "m_done"
    /\ Len(dfs_dict) = 3
    /\ dfs_dict[1].key = 3
    /\ \E i, j \in Tasks :
          /\ lasterr[i] = "marker" /\ results[dfs_dict[i].key] = NoneSlot
          /\ fut[j].ok /\ results[dfs_dict[j].key].tbl # <<>>

\* The row of t before which the rows of frame r begin, the frames laid end to
\* end
RECURSIVE StartOf(_, _)
StartOf(frames, r) ==
    IF r = 1 THEN 0 ELSE StartOf(frames, r - 1) + Len(frames[r - 1])

\* t holds the rows of every frame, frame after frame in list order, each
\* frame's rows in their own order, and nothing else
Flattens(t, frames) ==
    /\ Len(t) = StartOf(frames, Len(frames) + 1)
    /\ \A r \in DOMAIN frames :
          SubSeq(t, StartOf(frames, r) + 1, StartOf(frames, r + 1)) = frames[r]

\* C11: every reconciled round adds one table to the list of round tables, the
\* rows of its chunk results in chunk-index order, failed chunks adding none;
\* a table once in the list is never changed, moved or removed; the table
\* returned holds the rows of every round's table in round order, nothing
\* dropped and nothing deduplicated.
CumulativeStep ==
    /\ Len(overall_results') >= Len(overall_results)
    /\ SubSeq(overall_results', 1, Len(overall_results)) = overall_results
    /\ nqueries' = nqueries + 1 =>
          /\ Len(overall_results') = Len(overall_results) + 1
          /\ Flattens(overall_results'[Len(overall_results')],
                      [i \in DOMAIN results |-> results[i].tbl])
    /\ (pc # "done" /\ pc' = "done") => Flattens(final_df', overall_results)

CumulativeOutput ==
    /\ [][CumulativeStep]_vars
    /\ [](Len(overall_results) = nqueries)
    /\ [](pc = "done" => (Len(overall_results) = rounds /\ Flattens(final_df, overall_results)))

\* Two rounds over two rows: the first kept one chunk's row and lost the other
\* chunk, the second returned both rows, and the table returned holds the
\* first row twice
CumulativeOutputWitness ==
    /\ pc = "done"
    /\ rounds = 2
    /\ Len(overall_results[1]) = 1
    /\ Len(overall_results[2]) = 2
    /\ Len(final_df) = 3
    /\ final_df[1] = final_df[2]

\* C12 as stated: at every point of a call the caller's DataFrame is as it was
\* passed, in the value and in the type of every record's key.
InputUnchanged == df = given

\* C13: once normalized, the key column is the same whether the caller passed
\* integers or their string forms, and normalizing it again changes nothing;
\* the persisted keys are compared as strings; so after every reconciliation
\* the residual is decided by the number of records and the store's answer
\* alone, not by the type the keys were passed in.
KeyNormalization ==
    /\ pc # "start" =>
          /\ df = StrColumn(Len(given))
          /\ AstypeStrAll(df) = df
    /\ \A k \in StoreKeys : AstypeStr(AstypeStr(k)) = AstypeStr(k)
    /\ \A k \in processed_ids : k.ty = "str"
    /\ nqueries > 0 =>
          remaining_df = SelectSeq(StrColumn(Len(given)), LAMBDA k : k \notin processed_ids)

\* Two records passed with integer keys; a store query named one of them and
\* the residual is the other one, as a string
KeyNormalizationWitness ==
    /\ given = IntColumn(2)
    /\ nqueries > 0
    /\ processed_ids = {StrKey(<<1>>)}
    /\ remaining_df = <<StrKey(<<2>>)>>

\* C14: after every reconciliation the residual holds, in input order, exactly
\* the records of the whole input whose key the latest answer of the store
\* does not name, whatever the residual was before; the chunks of every round
\* are the residual as it stood when the round started, the whole input in
\* the first round, and every chunk is the argument of its own task.
DispatchStep ==
    (pc = "loop" /\ pc' = "submit") =>
        /\ Flattens(remaining_df, chunks')
        /\ rounds = 0 => remaining_df = df

ResidualFromOriginal ==
    /\ [][DispatchStep]_vars
    /\ [](nqueries > 0 =>
            remaining_df = SelectSeq(df, LAMBDA k : k \notin processed_ids))
    /\ [](pc \in {"submit", "collect"} =>
            /\ Flattens(remaining_df, chunks)
            /\ \A i \in Tasks : Arg(i) = chunks[i])

\* The second round was given the second record alone, so the first had left
\* the residual; the store's next answer did not name it and the third round
\* is given both records
ResidualFromOriginalWitness ==
    /\ rounds = 3
    /\ pc = "collect"
    /\ Len(overall_results) = 2
    /\ overall_results[2] = <<StrKey(<<2>>)>>
    /\ chunks = << <<StrKey(<<1>>), StrKey(<<2>>)>> >>

\* C15: a round is in progress exactly between its start and its store query;
\* outside a round no task is queued, running or inside the collaborator; a
\* round starts only when every earlier round has had its query, a query is
\* made only for the round in progress and ends it, and the collaborator is
\* invoked only within the round in progress. So the rounds never overlap and
\* each round that ran had exactly one query when the call returns.
SequentialStep ==
    /\ rounds' # rounds =>
          /\ rounds' = rounds + 1
          /\ nqueries = rounds
          /\ nqueries' = nqueries
          /\ \A i \in Tasks : fut[i].st = "finished"
    /\ nqueries' # nqueries =>
          /\ nqueries' = nqueries + 1
          /\ rounds = nqueries + 1
          /\ rounds' = rounds
          /\ remaining_df' = SelectSeq(df, LAMBDA k : k \notin processed_ids')
    /\ (\E i \in Tasks \cap DOMAIN ncalls' : ncalls'[i] > ncalls[i]) =>
          /\ rounds = nqueries + 1
          /\ rounds' = rounds

RoundsSequential ==
    /\ [][SequentialStep]_vars
    /\ [](rounds \in {nqueries, nqueries + 1})
    /\ [](rounds = nqueries + 1 <=> pc \in {"submit", "collect"})
    /\ [](pc \notin {"submit", "collect"} =>
            /\ queue = <<>>
            /\ \A w \in DOMAIN worker : worker[w] = 0
            /\ \A i \in Tasks : fut[i].st = "finished" /\ ~incall[i])
    /\ [](pc = "done" => nqueries = rounds)

\* The collaborator is being invoked for a chunk of the second round, after
\* the first round's query
RoundsSequentialWitness ==
    /\ rounds = 2
    /\ nqueries = 1
    /\ \E i \in Tasks : incall[i] /\ Arg(i) # <<>>

\* Some chunk of the round in progress is unresolved: its future has not been
\* handed out (not submitted yet, queued, running, or finished and not yet
\* stored or substituted)
Unresolved == \E i \in Tasks : i \notin yielded

\* C16: the store query of a round is made only when every chunk of the round
\* has finished and its slot holds its table or the substitute; as long as a
\* chunk is unresolved no step makes a query, starts a round or returns, and
\* none of these is possible. A call of the collaborator that never returns
\* therefore keeps the round where it is for good.
BarrierStep ==
    /\ nqueries' = nqueries + 1 =>
          \A i \in Tasks : fut[i].st = "finished" /\ i \in yielded /\ results[i].set
    /\ Unresolved =>
          /\ nqueries' = nqueries
          /\ rounds' = rounds
          /\ pc' \in {"submit", "collect"}
          /\ overall_results' = overall_results

FanInBarrier ==
    /\ [][BarrierStep]_vars
    /\ [](Unresolved => (pc \in {"submit", "collect"} /\ ~ENABLED Reconcile
                            /\ ~ENABLED StartRound /\ ~ENABLED Return))
    /\ []((\E i \in Tasks : incall[i]) => Unresolved)

\* Of two chunks one is stored and the other is inside the collaborator: the
\* only steps possible are the return or the raise of that call
FanInBarrierWitness ==
    /\ pc = "collect"
    /\ Cardinality(Tasks) = 2
    /\ \E i \in Tasks :
          /\ incall[i]
          /\ yielded = Tasks \ {i}
          /\ \A j \in Tasks \ {i} : results[j].set
    /\ ~ENABLED Reconcile
    /\ ~ENABLED (\E w \in DOMAIN worker : TakeTask(w))
    /\ ~ENABLED (\E j \in Tasks : Collect(j))

\* The largest chunk count of a round
MaxChunks == IF MaxSplits > MaxWorkers THEN MaxSplits ELSE MaxWorkers

ReturnsOnlyReconciled ==
    (max_main_retries >= 1 /\ pc \in {"return", "done"}) => (rounds >= 1 /\ nqueries >= 1)

\* The steps the controller can take, by the place it is at
ControllerStep ==
    /\ pc = "start" => pc' = "validate"
    /\ pc = "validate" => pc' = IF Unreconcilable THEN "raised" ELSE "loop"
    /\ pc = "loop" =>
          /\ pc' \in {"submit", "return"}
          /\ pc' = "submit" <=> (remaining_df # <<>> /\ attempt < max_main_retries)
          /\ rounds = 0 => (remaining_df = df /\ attempt = 0)
          /\ rounds > 0 => remaining_df # <<>>
    /\ pc = "submit" => pc' \in {"submit", "collect"}
    /\ pc = "collect" =>
          /\ pc' \in {"collect", "loop", "return"}
          /\ pc' # "collect" => nqueries' = nqueries + 1
          /\ pc' = "return" <=> (pc' # "collect" /\ remaining_df' = <<>>)
    /\ pc = "return" => pc' = "done"
    /\ pc \notin {"raised", "done"}

\* C18, amended: with the store handle and the target identity supplied, a
\* non-empty input and a budget of at least one round, the controller goes from
\* its initial state to dispatching with the whole input as residual, from
\* dispatching to the reconciliation, and from there to dispatching again
\* (residual not empty, budget left), to its return with the residual empty,
\* or to its return with the budget spent. With an empty input or a budget of
\* zero rounds it goes from the initial state straight to its return: no
\* round, no store query, an empty table.
ControllerStateMachine ==
    /\ [][ControllerStep]_vars
    /\ [](pc \in {"return", "done"} =>
            \/ /\ rounds = 0
               /\ nqueries = 0
               /\ df = <<>> \/ max_main_retries = 0
               /\ final_df = <<>>
            \/ /\ rounds >= 1
               /\ nqueries = rounds
               /\ df # <<>>
               /\ remaining_df = <<>> \/ rounds = max_main_retries)
    /\ []((df = <<>> \/ max_main_retries = 0) => (rounds = 0 /\ nqueries = 0))

\* A call with no record, both store parameters and a budget of two rounds has
\* returned without a round and without a store query
ControllerStateMachineWitness ==
    /\ pc = "done"
    /\ given = <<>>
    /\ ~Unreconcilable
    /\ max_main_retries = 2
    /\ rounds = 0
    /\ nqueries = 0

\* The call has returned with the residual empty, or with max_main_retries
\* rounds run
Terminated == pc = "done" /\ (remaining_df = <<>> \/ rounds = max_main_retries)

IndependentStep ==
    \A i \in Tasks \cap DOMAIN tries' :
        tries'[i] > tries[i] =>
            \A j \in Tasks \ {i} : tries'[j] = tries[j] /\ ncalls'[j] = ncalls[j]

InvocationBound ==
    /\ [][IndependentStep]_vars
    /\ [](/\ invocations <= SplitCount * max_retries * max_main_retries
          /\ invocations <= SplitCount * max_retries * rounds
          /\ \A n \in DOMAIN passed :
                /\ passed[n] <= max_retries * max_main_retries
                /\ passed[n] <= max_retries * rounds)
    /\ [](rounds > 0 => Cardinality(Tasks) = SplitCount)
    /\ [](\A i \in Tasks :
            /\ ncalls[i] <= max_retries
            /\ ncalls[i] - tries[i] \in {0, 1}
            /\ fut[i].st = "finished" => ncalls[i] >= 1
            /\ (fut[i].st = "running" /\ ~incall[i] /\ tries[i] < max_retries) =>
                  ENABLED (WrapperLoop(i) /\ incall'[i]))
    /\ []((pc \in {"loop", "return", "done"} /\ rounds > 0) =>
            /\ invocations >= SplitCount * rounds
            /\ \A n \in DOMAIN passed : passed[n] >= 1)

\* One round of two chunks: the first used up its three invocations on
\* transient errors, the second then still had three and returned its row on
\* the third; six invocations in all, three with each record
InvocationBoundWitness ==
    /\ max_main_retries = 1
    /\ Cardinality(Tasks) = 2
    /\ fut[1] = Raised(ExhaustedMessage)
    /\ fut[2].ok /\ fut[2].val # <<>> /\ tries[2] = 2
    /\ invocations = 6
    /\ \A n \in DOMAIN passed : passed[n] = 3

====
